---- MODULE Spec2Model ----
(***************************************************************************)
(* The navigation router of the devtools extension (createRouter): the     *)
(* reducer that holds the committed RouterState, and the reaction that     *)
(* consumes Navigate / InterceptLeaveRedirect / InterceptEnterRedirect     *)
(* through concatMap, runs the leave and enter hooks and emits the commit. *)
(***************************************************************************)
EXTENDS Integers, Sequences, FiniteSets, TLC

\* ------------------------------------------------------------------ bounds

\* How many trigger actions (bootstrap, external Navigate, redirects) may
\* enter the action stream in one behaviour.
MaxTriggers == 4

\* The longest path handed to the matcher on its own.
MaxPathLen == 2

\* ------------------------------------------------------------------- Url

\* createUrl(path, query): a Url is a path (sequence of segments) and a query;
\* the router reads only url.path and otherwise treats the Url as a value.
createUrl(path, query) == [path |-> path, query |-> query]

\* createUrl() with no arguments, the default Url.
DefaultUrl == createUrl(<< >>, "")

UrlA == createUrl(<<"a">>, "")

UrlAQ == createUrl(<<"a">>, "q")

UrlAX == createUrl(<<"a", "x">>, "")

UrlB == createUrl(<<"b">>, "")

UrlNone == createUrl(<<"b", "x">>, "")

\* The Urls external callers navigate to (the default Url is navigated to by
\* the bootstrap).
NavUrls == {UrlA, UrlAQ, UrlAX, UrlB, UrlNone}

\* The Urls a guard may return as a redirect.
RedirectUrls == {UrlA, UrlB}

\* ------------------------------------------------------------ RouteConfig

\* routerConfig.routes: the registry, in registration order.  A pattern
\* segment in ParamSegments is a parameter placeholder, any other a literal;
\* parent = 0 means a top-level route.  Route 1 is an index route (empty
\* pattern), route 3 a child of route 2.  The four hook fields say whether the config
\* declares the hook.
routes ==
  << [id |-> 1, pattern |-> << >>, parent |-> 0,
      interceptLeave |-> FALSE, dispatchOnLeave |-> FALSE,
      interceptEnter |-> FALSE, dispatchOnEnter |-> FALSE],
     [id |-> 2, pattern |-> <<"a">>, parent |-> 0,
      interceptLeave |-> TRUE, dispatchOnLeave |-> TRUE,
      interceptEnter |-> FALSE, dispatchOnEnter |-> TRUE],
     [id |-> 3, pattern |-> <<":p">>, parent |-> 2,
      interceptLeave |-> TRUE, dispatchOnLeave |-> TRUE,
      interceptEnter |-> TRUE, dispatchOnEnter |-> TRUE],
     [id |-> 4, pattern |-> <<"b">>, parent |-> 0,
      interceptLeave |-> FALSE, dispatchOnLeave |-> FALSE,
      interceptEnter |-> TRUE, dispatchOnEnter |-> FALSE],
     [id |-> 5, pattern |-> <<":q">>, parent |-> 0,
      interceptLeave |-> FALSE, dispatchOnLeave |-> FALSE,
      interceptEnter |-> FALSE, dispatchOnEnter |-> FALSE] >>

RouteConfigIds == {routes[i].id : i \in 1..Len(routes)}

\* What `routeConfig?.hook` sees when getRouteConfig returns undefined.
NoRouteConfig ==
  [id |-> 0, pattern |-> << >>, parent |-> 0,
   interceptLeave |-> FALSE, dispatchOnLeave |-> FALSE,
   interceptEnter |-> FALSE, dispatchOnEnter |-> FALSE]

\* routeMatcher.getRouteConfig(id)
getRouteConfig(id) ==
  IF id \in RouteConfigIds
    THEN routes[CHOOSE i \in 1..Len(routes) : routes[i].id = id]
    ELSE NoRouteConfig

\* ----------------------------------------------------------- RouteMatcher

\* new RouteMatcher(registry): the operators below take the registry the
\* matcher was constructed with; the router's matcher is built from routes.

ParamSegments == {":p", ":q"}

IsParam(seg) == seg \in ParamSegments

\* Registration index of a config in a registry.
RegIndexIn(reg, id) == CHOOSE i \in 1..Len(reg) : reg[i].id = id

RegIndex(id) == RegIndexIn(routes, id)

\* The chain of config ids from the outermost ancestor down to id.
RECURSIVE ConfigChainIn(_, _)
ConfigChainIn(reg, id) ==
  IF reg[RegIndexIn(reg, id)].parent = 0 THEN <<id>>
  ELSE Append(ConfigChainIn(reg, reg[RegIndexIn(reg, id)].parent), id)

ConfigChain(id) == ConfigChainIn(routes, id)

RECURSIVE ConcatPatternsIn(_, _)
ConcatPatternsIn(reg, chain) ==
  IF chain = << >> THEN << >>
  ELSE reg[RegIndexIn(reg, Head(chain))].pattern \o ConcatPatternsIn(reg, Tail(chain))

ConcatPatterns(chain) == ConcatPatternsIn(routes, chain)

FullPatternIn(reg, id) == ConcatPatternsIn(reg, ConfigChainIn(reg, id))

FullPattern(id) == FullPatternIn(routes, id)

\* The concatenated patterns consume the path exactly.
PatternMatches(pattern, path) ==
  /\ Len(pattern) = Len(path)
  /\ \A i \in 1..Len(pattern) : IsParam(pattern[i]) \/ pattern[i] = path[i]

CandidatesIn(reg, path) ==
  {id \in {reg[i].id : i \in 1..Len(reg)} : PatternMatches(FullPatternIn(reg, id), path)}

Candidates(path) == CandidatesIn(routes, path)

\* The positions at which one pattern has a literal and the other a
\* placeholder.
KindDiff(p1, p2) == {i \in 1..Len(p1) : IsParam(p1[i]) # IsParam(p2[i])}

\* Candidates are ordered by registration alone.
PreferredInRegistrationOrder(reg, c1, c2) ==
  RegIndexIn(reg, c1) <= RegIndexIn(reg, c2)

\* c1 is preferred to c2 for a path both match: at the first position where
\* one has a literal and the other a placeholder the literal wins; candidates
\* equally specific are ordered by registration.
PreferredIn(reg, c1, c2) ==
  LET p1 == FullPatternIn(reg, c1)
      diff == KindDiff(FullPatternIn(reg, c1), FullPatternIn(reg, c2))
  IN  IF diff = {}
        THEN RegIndexIn(reg, c1) <= RegIndexIn(reg, c2)
        ELSE ~IsParam(p1[CHOOSE i \in diff : \A j \in diff : i <= j])

Preferred(c1, c2) == PreferredIn(routes, c1, c2)

\* The values bound by the config's own placeholder segments.
RECURSIVE BindParams(_, _)
BindParams(pattern, segs) ==
  IF pattern = << >> THEN << >>
  ELSE IF IsParam(Head(pattern))
    THEN <<Head(segs)>> \o BindParams(Tail(pattern), Tail(segs))
    ELSE BindParams(Tail(pattern), Tail(segs))

\* The Route instances of a chain of configs against the path.
RECURSIVE RoutesOfChainIn(_, _, _)
RoutesOfChainIn(reg, chain, path) ==
  IF chain = << >> THEN << >>
  ELSE LET rc == reg[RegIndexIn(reg, Head(chain))]
           n  == Len(rc.pattern)
       IN  << [routeConfigId |-> rc.id,
               params |-> BindParams(rc.pattern, SubSeq(path, 1, n))] >>
           \o RoutesOfChainIn(reg, Tail(chain), SubSeq(path, n + 1, Len(path)))

RoutesOfChain(chain, path) == RoutesOfChainIn(routes, chain, path)

\* match(path) of the matcher of a registry: the hierarchy, outermost first;
\* << >> if none.
MatchIn(reg, path) ==
  LET cands == CandidatesIn(reg, path)
  IN  IF cands = {} THEN << >>
      ELSE LET best == CHOOSE c \in cands : \A d \in cands : PreferredIn(reg, c, d)
           IN  RoutesOfChainIn(reg, ConfigChainIn(reg, best), path)

\* routeMatcher.match(path)
match(path) == MatchIn(routes, path)

\* ----------------------------------------------------------------- actions

NoRoutes == << >>

\* routerActions.Navigate({ url })
Navigate(url) ==
  [type |-> "Navigate", url |-> url, routes |-> NoRoutes, routeConfigId |-> 0]

\* routerActions.InterceptLeaveRedirect({ url })
InterceptLeaveRedirect(url) ==
  [type |-> "InterceptLeaveRedirect", url |-> url, routes |-> NoRoutes,
   routeConfigId |-> 0]

\* routerActions.InterceptEnterRedirect({ url })
InterceptEnterRedirect(url) ==
  [type |-> "InterceptEnterRedirect", url |-> url, routes |-> NoRoutes,
   routeConfigId |-> 0]

\* routerActions.NavigationComplete({ url, routes })
NavigationComplete(url, rs) ==
  [type |-> "NavigationComplete", url |-> url, routes |-> rs, routeConfigId |-> 0]

\* The action routeConfig.dispatchOnLeave(store, prevUrl, route) returns: an
\* application action, identified by the hook and the route it was built for.
DispatchOnLeaveAction(prevUrl, route) ==
  [type |-> "dispatchOnLeave", url |-> prevUrl, routes |-> NoRoutes,
   routeConfigId |-> route.routeConfigId]

\* The action routeConfig.dispatchOnEnter(store, prevUrl, route) returns.
DispatchOnEnterAction(prevUrl, route) ==
  [type |-> "dispatchOnEnter", url |-> prevUrl, routes |-> NoRoutes,
   routeConfigId |-> route.routeConfigId]

\* filterActions([Navigate, InterceptLeaveRedirect, InterceptEnterRedirect])
TriggerTypes == {"Navigate", "InterceptLeaveRedirect", "InterceptEnterRedirect"}
\* Only Navigate starts a pass: redirect actions are not let through.
filterActionsNavigateOnly(action) == action.type = "Navigate"

\* InterceptLeaveRedirect is not let through: a leave redirect starts no pass.
filterActionsNoLeaveRedirect(action) ==
  action.type \in {"Navigate", "InterceptEnterRedirect"}

filterActions(action) == action.type \in TriggerTypes

\* ----------------------------------------------------------------- reducer

\* The initial RouterState of createReducer.
InitialState == [url |-> DefaultUrl, routes |-> NoRoutes]

\* The reducer forgets `state.url = action.payload.url`.
routerReducerRoutesOnly(st, action) ==
  IF action.type = "NavigationComplete"
    THEN [url |-> st.url, routes |-> action.routes]
    ELSE st

\* The reducer forgets `state.routes = action.payload.routes`.
routerReducerUrlOnly(st, action) ==
  IF action.type = "NavigationComplete"
    THEN [url |-> action.url, routes |-> st.routes]
    ELSE st

\* The reducer also takes the url of a Navigate as the current url.
routerReducerFoldsNavigate(st, action) ==
  IF action.type = "NavigationComplete"
    THEN [url |-> action.url, routes |-> action.routes]
    ELSE IF action.type = "Navigate" THEN [st EXCEPT !.url = action.url]
    ELSE st

\* routerReducer: NavigationComplete replaces url and routes; every other
\* action leaves the state as it is.
routerReducer(st, action) ==
  IF action.type = "NavigationComplete"
    THEN [url |-> action.url, routes |-> action.routes]
    ELSE st

\* ------------------------------------------------------------ hook results

\* What interceptLeave / interceptEnter return: a boolean or a Url.
BoolResult(b) == [tag |-> "boolean", bool |-> b, url |-> DefaultUrl]

UrlResult(u) == [tag |-> "url", bool |-> FALSE, url |-> u]

\* A hook that throws instead of returning.
ThrowResult == [tag |-> "throw", bool |-> FALSE, url |-> DefaultUrl]

\* The results a guard may return during a pass; a redirect only while the
\* trigger budget of the behaviour is not used up.
GuardResults(canRedirect) ==
  {BoolResult(TRUE), BoolResult(FALSE)}
    \cup (IF canRedirect THEN {UrlResult(u) : u \in RedirectUrls} ELSE {})

\* The configs of a hierarchy that declare interceptLeave / interceptEnter.
LeaveGuarded(rs) ==
  {rs[i].routeConfigId : i \in {j \in 1..Len(rs) :
                                  getRouteConfig(rs[j].routeConfigId).interceptLeave}}

EnterGuarded(rs) ==
  {rs[i].routeConfigId : i \in {j \in 1..Len(rs) :
                                  getRouteConfig(rs[j].routeConfigId).interceptEnter}}

Call(hook, route, result) ==
  [hook |-> hook, routeConfigId |-> route.routeConfigId, result |-> result]

\* A hook of a config, and the value that stands for "no hook".
Hook(hook, id) == [hook |-> hook, routeConfigId |-> id]

NoHook == Hook("none", 0)

\* The hooks the configs of a hierarchy declare for the leave phase / the
\* enter phase.
LeaveHooks(rs) ==
  {Hook("interceptLeave", id) : id \in LeaveGuarded(rs)}
    \cup {Hook("dispatchOnLeave", rs[i].routeConfigId) :
            i \in {j \in 1..Len(rs) : getRouteConfig(rs[j].routeConfigId).dispatchOnLeave}}

EnterHooks(rs) ==
  {Hook("interceptEnter", id) : id \in EnterGuarded(rs)}
    \cup {Hook("dispatchOnEnter", rs[i].routeConfigId) :
            i \in {j \in 1..Len(rs) : getRouteConfig(rs[j].routeConfigId).dispatchOnEnter}}

\* --------------------------------------------------------------- pipeline

\* The loop state: kind is "continue" until a guard returns false ("empty")
\* or a Url ("redirect", url) or a hook throws ("throw"); actions is the dispatchOnLeave / dispatchOnEnter
\* array, calls the hooks invoked so far.
LoopStart(calls) ==
  [kind |-> "continue", url |-> DefaultUrl, actions |-> << >>, calls |-> calls]

\* What the guard `hook` of a route returns if its config declares one; th is
\* the hook that throws when it is invoked in this pass (NoHook: none does).
GuardResult(declared, results, route, hook, th) ==
  IF ~declared THEN BoolResult(TRUE)
  ELSE IF th = Hook(hook, route.routeConfigId) THEN ThrowResult
  ELSE results[route.routeConfigId]

\* Whether the dispatch hook of a route returns its action or throws.
DispatchResult(route, hook, th) ==
  IF th = Hook(hook, route.routeConfigId) THEN ThrowResult ELSE BoolResult(TRUE)
\* A route whose interceptLeave returned false or a Url still has its
\* dispatchOnLeave invoked before the pass ends.
LeaveBodyDispatchesOnReject(prevUrl, route, routeConfig, result, dispatched, acc) ==
  [acc EXCEPT
     !.kind = IF routeConfig.interceptLeave /\ result.tag = "throw" THEN "throw"
              ELSE IF routeConfig.interceptLeave /\ result.tag = "boolean" /\ ~result.bool
                THEN "empty"
              ELSE IF routeConfig.interceptLeave /\ result.tag # "boolean" THEN "redirect"
              ELSE IF routeConfig.dispatchOnLeave /\ dispatched.tag = "throw" THEN "throw"
              ELSE @,
     !.url = IF routeConfig.interceptLeave /\ result.tag = "url" THEN result.url ELSE @,
     !.actions = IF routeConfig.dispatchOnLeave /\ dispatched.tag # "throw"
                   THEN Append(@, DispatchOnLeaveAction(prevUrl, route)) ELSE @,
     !.calls = @ \o (IF routeConfig.interceptLeave
                       THEN <<Call("interceptLeave", route, result)>> ELSE << >>)
                 \o (IF routeConfig.dispatchOnLeave
                       THEN <<Call("dispatchOnLeave", route, dispatched)>>
                       ELSE << >>)]

\* The body of the leave loop for one route, result being what its
\* interceptLeave returns: false ends the pass empty, a Url ends it in a
\* redirect, otherwise dispatchOnLeave (if declared) is pushed.  A hook that
\* throws ends the pass ("throw"): the exception leaves the project function.
LeaveBody(prevUrl, route, routeConfig, result, dispatched, acc) ==
  IF routeConfig.interceptLeave /\ result.tag = "throw"
    THEN [acc EXCEPT !.kind = "throw",
                     !.calls = Append(@, Call("interceptLeave", route, result))]
  ELSE IF routeConfig.interceptLeave /\ result.tag = "boolean" /\ ~result.bool
    THEN [acc EXCEPT !.kind = "empty",
                     !.calls = Append(@, Call("interceptLeave", route, result))]
  ELSE IF routeConfig.interceptLeave /\ result.tag # "boolean"
    THEN [acc EXCEPT !.kind = "redirect", !.url = result.url,
                     !.calls = Append(@, Call("interceptLeave", route, result))]
  ELSE [acc EXCEPT
          !.kind = IF routeConfig.dispatchOnLeave /\ dispatched.tag = "throw"
                     THEN "throw" ELSE @,
          !.actions = IF routeConfig.dispatchOnLeave /\ dispatched.tag # "throw"
                        THEN Append(@, DispatchOnLeaveAction(prevUrl, route)) ELSE @,
          !.calls = @ \o (IF routeConfig.interceptLeave
                            THEN <<Call("interceptLeave", route, result)>> ELSE << >>)
                      \o (IF routeConfig.dispatchOnLeave
                            THEN <<Call("dispatchOnLeave", route, dispatched)>>
                            ELSE << >>)]

\* The leave loop over prevRoutes from index i on; lr gives what each
\* interceptLeave returns.
RECURSIVE LeaveLoop(_, _, _, _, _, _)
LeaveLoop(prevUrl, prevRoutes, lr, th, i, acc) ==
  IF i > Len(prevRoutes) \/ acc.kind # "continue" THEN acc
  ELSE LeaveLoop(prevUrl, prevRoutes, lr, th, i + 1,
         LeaveBody(prevUrl, prevRoutes[i],
                   getRouteConfig(prevRoutes[i].routeConfigId),
                   GuardResult(getRouteConfig(prevRoutes[i].routeConfigId).interceptLeave,
                               lr, prevRoutes[i], "interceptLeave", th),
                   DispatchResult(prevRoutes[i], "dispatchOnLeave", th),
                   acc))
\* interceptEnter returning false does not end the pass.
EnterBodyIgnoresReject(prevUrl, route, routeConfig, result, dispatched, acc) ==
  IF routeConfig.interceptEnter /\ result.tag = "throw"
    THEN [acc EXCEPT !.kind = "throw",
                     !.calls = Append(@, Call("interceptEnter", route, result))]
  ELSE IF routeConfig.interceptEnter /\ result.tag # "boolean"
    THEN [acc EXCEPT !.kind = "redirect", !.url = result.url,
                     !.calls = Append(@, Call("interceptEnter", route, result))]
  ELSE [acc EXCEPT
          !.kind = IF routeConfig.dispatchOnEnter /\ dispatched.tag = "throw"
                     THEN "throw" ELSE @,
          !.actions = IF routeConfig.dispatchOnEnter /\ dispatched.tag # "throw"
                        THEN Append(@, DispatchOnEnterAction(prevUrl, route)) ELSE @,
          !.calls = @ \o (IF routeConfig.interceptEnter
                            THEN <<Call("interceptEnter", route, result)>> ELSE << >>)
                      \o (IF routeConfig.dispatchOnEnter
                            THEN <<Call("dispatchOnEnter", route, dispatched)>>
                            ELSE << >>)]

\* The body of the enter loop for one route.
EnterBody(prevUrl, route, routeConfig, result, dispatched, acc) ==
  IF routeConfig.interceptEnter /\ result.tag = "throw"
    THEN [acc EXCEPT !.kind = "throw",
                     !.calls = Append(@, Call("interceptEnter", route, result))]
  ELSE IF routeConfig.interceptEnter /\ result.tag = "boolean" /\ ~result.bool
    THEN [acc EXCEPT !.kind = "empty",
                     !.calls = Append(@, Call("interceptEnter", route, result))]
  ELSE IF routeConfig.interceptEnter /\ result.tag # "boolean"
    THEN [acc EXCEPT !.kind = "redirect", !.url = result.url,
                     !.calls = Append(@, Call("interceptEnter", route, result))]
  ELSE [acc EXCEPT
          !.kind = IF routeConfig.dispatchOnEnter /\ dispatched.tag = "throw"
                     THEN "throw" ELSE @,
          !.actions = IF routeConfig.dispatchOnEnter /\ dispatched.tag # "throw"
                        THEN Append(@, DispatchOnEnterAction(prevUrl, route)) ELSE @,
          !.calls = @ \o (IF routeConfig.interceptEnter
                            THEN <<Call("interceptEnter", route, result)>> ELSE << >>)
                      \o (IF routeConfig.dispatchOnEnter
                            THEN <<Call("dispatchOnEnter", route, dispatched)>>
                            ELSE << >>)]

\* The enter loop over nextRoutes from index i on.
RECURSIVE EnterLoop(_, _, _, _, _, _)
EnterLoop(prevUrl, nextRoutes, er, th, i, acc) ==
  IF i > Len(nextRoutes) \/ acc.kind # "continue" THEN acc
  ELSE EnterLoop(prevUrl, nextRoutes, er, th, i + 1,
         EnterBody(prevUrl, nextRoutes[i],
                   getRouteConfig(nextRoutes[i].routeConfigId),
                   GuardResult(getRouteConfig(nextRoutes[i].routeConfigId).interceptEnter,
                               er, nextRoutes[i], "interceptEnter", th),
                   DispatchResult(nextRoutes[i], "dispatchOnEnter", th),
                   acc))

\* What the leave phase ends in: EMPTY, of(InterceptLeaveRedirect) or on to
\* the enter phase.
LeaveOutcome(prevUrl, prevRoutes, lr, th) ==
  LeaveLoop(prevUrl, prevRoutes, lr, th, 1, LoopStart(<< >>))

\* What the enter phase ends in, the leave phase having passed.
EnterOutcome(prevUrl, nextRoutes, er, th, calls) ==
  EnterLoop(prevUrl, nextRoutes, er, th, 1, LoopStart(calls))

\* The commit emits NavigationComplete ahead of the leave actions.
CommitActionsCompleteFirst(dispatchOnLeave, nextUrl, nextRoutes, dispatchOnEnter) ==
  <<NavigationComplete(nextUrl, nextRoutes)>> \o dispatchOnLeave \o dispatchOnEnter

\* The commit leaves out NavigationComplete.
CommitActionsNoComplete(dispatchOnLeave, nextUrl, nextRoutes, dispatchOnEnter) ==
  dispatchOnLeave \o dispatchOnEnter
\* The commit emits NavigationComplete on both sides of the leave actions.
CommitActionsTwice(dispatchOnLeave, nextUrl, nextRoutes, dispatchOnEnter) ==
  <<NavigationComplete(nextUrl, nextRoutes)>> \o dispatchOnLeave
    \o <<NavigationComplete(nextUrl, nextRoutes)>> \o dispatchOnEnter

\* The observable the commit returns: of(...dispatchOnLeave,
\* NavigationComplete({url: nextUrl, routes: nextRoutes}), ...dispatchOnEnter)
CommitActions(dispatchOnLeave, nextUrl, nextRoutes, dispatchOnEnter) ==
  dispatchOnLeave \o <<NavigationComplete(nextUrl, nextRoutes)>> \o dispatchOnEnter

\* The pass ends in the leave phase (leave.kind is "empty", "redirect" or
\* "throw"):
\* match has not been called, no enter hook invoked.
EndsInLeave(action, st, leave) ==
  [trigger |-> action, prevUrl |-> st.url, prevRoutes |-> st.routes,
   nextUrl |-> action.url, nextRoutes |-> NoRoutes,
   leaveActions |-> leave.actions, enterActions |-> << >>,
   calls |-> leave.calls, kind |-> leave.kind, phase |-> "leave",
   redirectUrl |-> leave.url]
\* A target that matches no route ends the pass without a commit.
EndsAfterLeaveNoMatchAborts(action, st, leave, nextRoutes, enter) ==
  [trigger |-> action, prevUrl |-> st.url, prevRoutes |-> st.routes,
   nextUrl |-> action.url, nextRoutes |-> nextRoutes,
   leaveActions |-> leave.actions, enterActions |-> enter.actions,
   calls |-> enter.calls,
   kind |-> IF nextRoutes = NoRoutes THEN "empty"
            ELSE IF enter.kind = "continue" THEN "commit" ELSE enter.kind,
   phase |-> IF enter.kind = "continue" /\ nextRoutes # NoRoutes THEN "commit" ELSE "enter",
   redirectUrl |-> enter.url]

\* The leave phase passed; the pass ends in the enter phase (enter.kind is
\* "empty", "redirect" or "throw") or reaches the commit.
EndsAfterLeave(action, st, leave, nextRoutes, enter) ==
  [trigger |-> action, prevUrl |-> st.url, prevRoutes |-> st.routes,
   nextUrl |-> action.url, nextRoutes |-> nextRoutes,
   leaveActions |-> leave.actions, enterActions |-> enter.actions,
   calls |-> enter.calls,
   kind |-> IF enter.kind = "continue" THEN "commit" ELSE enter.kind,
   phase |-> IF enter.kind = "continue" THEN "commit" ELSE "enter",
   redirectUrl |-> enter.url]

OutcomeAfter(action, st, leave, nextRoutes, er, th) ==
  IF leave.kind # "continue"
    THEN EndsInLeave(action, st, leave)
    ELSE EndsAfterLeave(action, st, leave, nextRoutes,
                        EnterOutcome(st.url, nextRoutes, er, th, leave.calls))

\* One run of the project function of concatMap for a trigger, up to its
\* return statement: the snapshot st of the store (prevUrl, prevRoutes), the
\* leave loop, then match and the enter loop.  kind / phase say which return
\* statement is reached; the other fields are the locals at that point and
\* the hooks invoked.
Outcome(action, st, lr, er, th) ==
  OutcomeAfter(action, st, LeaveOutcome(st.url, st.routes, lr, th),
               match(action.url.path), er, th)

\* An enter redirect is substituted into the pass, which commits its target.
ReturnedSubstituteRedirect(o) ==
  IF o.kind = "throw" THEN << >>
  ELSE IF o.kind = "empty" THEN << >>
  ELSE IF o.kind = "redirect"
    THEN (IF o.phase = "leave"
            THEN <<InterceptLeaveRedirect(o.redirectUrl)>>
            ELSE CommitActions(o.leaveActions, o.redirectUrl,
                               match(o.redirectUrl.path), << >>))
  ELSE CommitActions(o.leaveActions, o.nextUrl, o.nextRoutes, o.enterActions)

\* rxjs EMPTY: completes without emitting.
EMPTY == << >>

\* A guard returning false flushes the dispatchOnLeave array collected so far.
ReturnedFlushOnLeaveAbort(o) ==
  IF o.kind = "throw" THEN << >>
  ELSE IF o.kind = "empty" THEN (IF o.phase = "leave" THEN o.leaveActions ELSE EMPTY)
  ELSE IF o.kind = "redirect"
    THEN (IF o.phase = "leave" THEN <<InterceptLeaveRedirect(o.redirectUrl)>>
                               ELSE <<InterceptEnterRedirect(o.redirectUrl)>>)
  ELSE CommitActions(o.leaveActions, o.nextUrl, o.nextRoutes, o.enterActions)

\* An enter guard returning false still emits the collected leave actions.
ReturnedFlushOnEnterAbort(o) ==
  IF o.kind = "throw" THEN << >>
  ELSE IF o.kind = "empty" THEN (IF o.phase = "enter" THEN o.leaveActions ELSE EMPTY)
  ELSE IF o.kind = "redirect"
    THEN (IF o.phase = "leave" THEN <<InterceptLeaveRedirect(o.redirectUrl)>>
                               ELSE <<InterceptEnterRedirect(o.redirectUrl)>>)
  ELSE CommitActions(o.leaveActions, o.nextUrl, o.nextRoutes, o.enterActions)
\* A hook that throws still lets the actions collected so far out.
ReturnedFlushOnThrow(o) ==
  IF o.kind = "throw" THEN o.leaveActions \o o.enterActions
  ELSE IF o.kind = "empty" THEN EMPTY
  ELSE IF o.kind = "redirect"
    THEN (IF o.phase = "leave" THEN <<InterceptLeaveRedirect(o.redirectUrl)>>
                               ELSE <<InterceptEnterRedirect(o.redirectUrl)>>)
  ELSE CommitActions(o.leaveActions, o.nextUrl, o.nextRoutes, o.enterActions)
\* An enter guard returning a Url still emits the collected leave actions
\* ahead of the redirect.
ReturnedFlushOnEnterRedirect(o) ==
  IF o.kind = "throw" THEN << >>
  ELSE IF o.kind = "empty" THEN EMPTY
  ELSE IF o.kind = "redirect"
    THEN (IF o.phase = "leave"
            THEN <<InterceptLeaveRedirect(o.redirectUrl)>>
            ELSE o.leaveActions \o <<InterceptEnterRedirect(o.redirectUrl)>>)
  ELSE CommitActions(o.leaveActions, o.nextUrl, o.nextRoutes, o.enterActions)

\* The observable the project function returns, as the sequence of actions it
\* emits: EMPTY, of(InterceptLeaveRedirect), of(InterceptEnterRedirect) or
\* the commit.  When a hook threw, no return statement is reached and nothing
\* is emitted.
Returned(o) ==
  IF o.kind = "throw" THEN << >>
  ELSE IF o.kind = "empty" THEN EMPTY
  ELSE IF o.kind = "redirect"
    THEN (IF o.phase = "leave" THEN <<InterceptLeaveRedirect(o.redirectUrl)>>
                               ELSE <<InterceptEnterRedirect(o.redirectUrl)>>)
  ELSE CommitActions(o.leaveActions, o.nextUrl, o.nextRoutes, o.enterActions)

\* The pass record of an outcome: the actions its observable has still to
\* emit (out) and those it has emitted (emitted).
PassOf(o, returned) ==
  [trigger |-> o.trigger, prevUrl |-> o.prevUrl, prevRoutes |-> o.prevRoutes,
   nextUrl |-> o.nextUrl, nextRoutes |-> o.nextRoutes,
   leaveActions |-> o.leaveActions, enterActions |-> o.enterActions,
   calls |-> o.calls, kind |-> o.kind, phase |-> o.phase,
   redirectUrl |-> o.redirectUrl, out |-> returned, emitted |-> << >>]

\* The pass of one trigger: the project function run, and the observable it
\* returns subscribed.
Project(action, st, lr, er, th) ==
  PassOf(Outcome(action, st, lr, er, th), Returned(Outcome(action, st, lr, er, th)))

\* ------------------------------------------------------------------ state

VARIABLES
  state,         \* the committed RouterState held by the store: [url, routes]
  inners,        \* concatMap's active inner subscriptions (passes in flight)
  buffer,        \* concatMap's buffer of triggers waiting for their pass
  bootstrapped,  \* the bootstrap reaction has emitted its Navigate
  nextSeq,       \* the position in the action stream of the next trigger
  done,          \* << >> or <<the pass that completed last>>
  fault,         \* << >> or <<the pass whose hook threw>>: the reaction errored
  policy,        \* how the application's hooks behave (fixed at construction)
  probe          \* the matcher under test (SpecMatch); NoProbe for the router

vars == <<state, inners, buffer, bootstrapped, nextSeq, done, fault, policy, probe>>

\* mergeMap in place of concatMap: passes may overlap.
ConcurrentMergeMap == 1 + 1

\* concatMap(project) is mergeMap(project, 1): at most one inner subscription.
Concurrent == 1

\* ---- what the application's hooks do

\* Hooks may return or throw anything; the guards of the configs in denied
\* never return true.
AnyPolicy(denied) == [name |-> "any", denied |-> denied]

\* Enter guards redirect into each other (that of /b to /a/x, that of /a/:p
\* to /b); leave guards pass; no hook throws.
CyclePolicy == [name |-> "cycle", denied |-> {}]

\* Guards return true or false, the enter guard of /b (config 4) always
\* false; no guard redirects, no hook throws.
RejectPolicy == [name |-> "reject", denied |-> {4}]

\* The leave guard of /a (config 2) answers every navigation away with the
\* same Url, whatever the trigger; the other leave guards pass, enter guards
\* return true or false; no hook throws.
LeaveLoopPolicy == [name |-> "leaveloop", denied |-> {}]

\* Every guard returns true or false as it pleases; no guard redirects, no
\* hook throws.
BooleanPolicy == [name |-> "reject", denied |-> {}]

CycleTarget(id) == IF id = 4 THEN UrlAX ELSE UrlB

LeaveLoopTarget == UrlB

AllGuardResults == GuardResults(TRUE) \cup {UrlResult(UrlAX)}

AllowedLeave(pol, id, canRedirect) ==
  IF pol.name = "cycle" THEN {BoolResult(TRUE)}
  ELSE IF pol.name = "leaveloop"
    THEN (IF id = 2 THEN {UrlResult(LeaveLoopTarget)} ELSE {BoolResult(TRUE)})
  ELSE IF pol.name = "reject" THEN GuardResults(FALSE)
  ELSE GuardResults(canRedirect)

AllowedEnter(pol, id, canRedirect) ==
  IF pol.name = "cycle" THEN {UrlResult(CycleTarget(id))}
  ELSE GuardResults(canRedirect /\ pol.name \notin {"reject", "leaveloop"})
         \ (IF id \in pol.denied THEN {BoolResult(TRUE)} ELSE {})

\* What the interceptLeave hooks of a hierarchy may return in one pass.
LeaveChoices(pol, rs, canRedirect) ==
  {f \in [LeaveGuarded(rs) -> AllGuardResults] :
     \A id \in LeaveGuarded(rs) : f[id] \in AllowedLeave(pol, id, canRedirect)}

\* What the interceptEnter hooks of a hierarchy may return in one pass.
EnterChoices(pol, rs, canRedirect) ==
  {f \in [EnterGuarded(rs) -> AllGuardResults] :
     \A id \in EnterGuarded(rs) : f[id] \in AllowedEnter(pol, id, canRedirect)}

\* The hook of the leave phase / of the enter phase that throws when the
\* pass invokes it; a pass ends with the first throw.
LeaveThrowChoices(pol, prevRoutes) ==
  IF pol.name # "any" THEN {NoHook} ELSE {NoHook} \cup LeaveHooks(prevRoutes)

EnterThrowChoices(pol, nextRoutes) ==
  IF pol.name # "any" THEN {NoHook} ELSE {NoHook} \cup EnterHooks(nextRoutes)

\* ---- the action stream and concatMap

\* The RouterState a pass read when it started.
Snapshot(p) == [url |-> p.prevUrl, routes |-> p.prevRoutes]

\* A trigger in the action stream, with its position in it, the position of
\* the Navigate it descends from (its own, unless a pass emitted it) and the
\* RouterState the pass that emitted it had read (that of construction for a
\* trigger no pass emitted).
Trigger(action, seq, root, origin) ==
  [action |-> action, seq |-> seq, root |-> root, origin |-> origin]

\* The next position in the stream; positions past the trigger budget are
\* not told apart.
Advance(n) == IF n <= MaxTriggers + 1 THEN n + 1 ELSE n

\* The project function reads a RouterState cached at construction.
InnerCachedSnapshot(t, st, lr, er, th) ==
  [seq |-> t.seq, root |-> t.root, origin |-> t.origin,
   pass |-> Project(t.action, InitialState, lr, er, th)]

\* The pass of a redirect reuses the RouterState of construction.
InnerRedirectFromInitial(t, st, lr, er, th) ==
  [seq |-> t.seq, root |-> t.root, origin |-> t.origin,
   pass |-> Project(t.action,
                    IF t.action.type = "Navigate" THEN st ELSE InitialState,
                    lr, er, th)]

\* An inner subscription: the pass of Project for the trigger.
Inner(t, st, lr, er, th) ==
  [seq |-> t.seq, root |-> t.root, origin |-> t.origin,
   pass |-> Project(t.action, st, lr, er, th)]

\* The project function has run: its observable is subscribed, or, if a hook
\* threw, the exception errors concatMap's output: the subscription is torn
\* down, with its inner subscriptions and its buffer.
Subscribe(inner, inn, buf) ==
  IF inner.pass.kind = "throw"
    THEN /\ fault' = <<inner>>
         /\ inners' = << >>
         /\ buffer' = << >>
    ELSE /\ fault' = fault
         /\ inners' = Append(inn, inner)
         /\ buffer' = buf

\* The leave phase passed: the project function goes on with whatever the
\* hooks of the enter phase do.
EnterPhase(t, st, lr, inn, buf) ==
  \E er \in EnterChoices(policy, match(t.action.url.path), nextSeq <= MaxTriggers) :
    \E th \in EnterThrowChoices(policy, match(t.action.url.path)) :
      Subscribe(Inner(t, st, lr, er, th), inn, buf)

\* The pass ends in the leave phase: no hook of the enter phase is invoked,
\* whatever it would have done.
LeavePhaseOnly(t, st, lr, th, inn, buf) ==
  Subscribe(Inner(t, st, lr,
                  CHOOSE er \in EnterChoices(policy, match(t.action.url.path),
                                             nextSeq <= MaxTriggers) : TRUE,
                  th),
            inn, buf)

\* doInnerSub: the project function runs against the store as it is now, with
\* whatever its hooks do.
DoInnerSub(t, st, inn, buf) ==
  \E lr \in LeaveChoices(policy, st.routes, nextSeq <= MaxTriggers) :
    \E th \in LeaveThrowChoices(policy, st.routes) :
      IF LeaveOutcome(st.url, st.routes, lr, th).kind = "continue"
        THEN th = NoHook /\ EnterPhase(t, st, lr, inn, buf)
        ELSE LeavePhaseOnly(t, st, lr, th, inn, buf)

\* A trigger that finds a pass in flight is put in front of the waiting ones.
OuterNextJumpsLine(t, st, inn, buf) ==
  IF Len(inn) < Concurrent
    THEN DoInnerSub(t, st, inn, buf)
    ELSE /\ buffer' = <<t>> \o buf
         /\ inners' = inn
         /\ fault' = fault
\* exhaustMap in place of concatMap: a trigger that finds a pass in flight
\* is dropped.
OuterNextExhaust(t, st, inn, buf) ==
  IF Len(inn) < Concurrent
    THEN DoInnerSub(t, st, inn, buf)
    ELSE /\ buffer' = buf
         /\ inners' = inn
         /\ fault' = fault

\* A trigger reaches concatMap (outer next): its pass starts if no inner
\* subscription is active, else it is buffered behind the waiting triggers.
OuterNext(t, st, inn, buf) ==
  IF Len(inn) < Concurrent
    THEN DoInnerSub(t, st, inn, buf)
    ELSE /\ buffer' = Append(buf, t)
         /\ inners' = inn
         /\ fault' = fault

\* store.dispatch(action) as the router sees it: the reducer folds the action,
\* and the action stream carries it to the reaction, where filterActions lets
\* the triggers through to concatMap.
Dispatch(action, root, origin, inn, buf) ==
  /\ state' = routerReducer(state, action)
  /\ IF filterActions(action)
       THEN /\ OuterNext(Trigger(action, nextSeq, IF root = 0 THEN nextSeq ELSE root, origin),
                         state', inn, buf)
            /\ nextSeq' = Advance(nextSeq)
       ELSE /\ inners' = inn
            /\ buffer' = buf
            /\ fault' = fault
            /\ nextSeq' = nextSeq

\* The value of probe while the router runs.
NoProbe == [registry |-> << >>, path |-> << >>, result |-> << >>, applied |-> FALSE]

\* The router after construction, its hooks behaving as pol says.
RouterInit(pol) ==
  /\ state = InitialState
  /\ inners = << >>
  /\ buffer = << >>
  /\ bootstrapped = FALSE
  /\ nextSeq = 1
  /\ done = << >>
  /\ fault = << >>
  /\ policy = pol
  /\ probe = NoProbe

Init == RouterInit(AnyPolicy({}))

\* The bootstrap reaction emits its Navigate whenever it is polled.
BootstrapRepeats ==
  /\ fault = << >>
  /\ nextSeq <= MaxTriggers
  /\ bootstrapped' = TRUE
  /\ Dispatch(Navigate(DefaultUrl), 0, InitialState, inners, buffer)
  /\ UNCHANGED <<done, policy, probe>>

\* The bootstrap reaction: of(routerActions.Navigate({ url: createUrl() })),
\* emitted once when the reactions are subscribed.
Bootstrap ==
  /\ ~bootstrapped
  /\ fault = << >>
  /\ bootstrapped' = TRUE
  /\ Dispatch(Navigate(DefaultUrl), 0, InitialState, inners, buffer)
  /\ UNCHANGED <<done, policy, probe>>

\* An external caller dispatches router.navigate(url).  After a hook threw
\* the reaction no longer receives actions.
DispatchNavigate ==
  /\ bootstrapped
  /\ fault = << >>
  /\ nextSeq <= MaxTriggers
  /\ \E url \in NavUrls : Dispatch(Navigate(url), 0, InitialState, inners, buffer)
  /\ UNCHANGED <<bootstrapped, done, policy, probe>>

\* The record kept of a pass that completed: the pass and the RouterState it
\* left behind.
Completed(inner, st) ==
  [seq |-> inner.seq, root |-> inner.root, origin |-> inner.origin,
   pass |-> inner.pass, after |-> st]

RemoveAt(s, i) == SubSeq(s, 1, i - 1) \o SubSeq(s, i + 1, Len(s))

\* An inner observable emits its next action, which the store dispatches.
Emit ==
  \E i \in 1..Len(inners) :
    /\ fault = << >>
    /\ inners[i].pass.out # << >>
    /\ LET action == Head(inners[i].pass.out)
           inn == [inners EXCEPT ![i].pass.out = Tail(@),
                                 ![i].pass.emitted = Append(@, action)]
       IN  Dispatch(action, inners[i].root, Snapshot(inners[i].pass), inn, buffer)
    /\ UNCHANGED <<bootstrapped, done, policy, probe>>

\* A guard returning false returns an observable that never completes.
InnerCompleteNeverOnReject(p) == p.out = << >> /\ p.kind # "empty"

\* The inner observable of a pass completes: EMPTY at once, of(...) after its
\* last action.
InnerComplete(p) == p.out = << >>

\* An inner observable completes and no trigger is waiting: the router is idle.
CompleteIdle ==
  \E i \in 1..Len(inners) :
    /\ fault = << >>
    /\ InnerComplete(inners[i].pass)
    /\ buffer = << >>
    /\ inners' = RemoveAt(inners, i)
    /\ done' = <<Completed(inners[i], state)>>
    /\ UNCHANGED <<state, buffer, bootstrapped, nextSeq, fault, policy, probe>>

\* An inner observable completes and concatMap subscribes to the pass of the
\* first buffered trigger.
CompleteNext ==
  \E i \in 1..Len(inners) :
    /\ fault = << >>
    /\ InnerComplete(inners[i].pass)
    /\ buffer # << >>
    /\ DoInnerSub(Head(buffer), state, RemoveAt(inners, i), Tail(buffer))
    /\ done' = <<Completed(inners[i], state)>>
    /\ UNCHANGED <<state, bootstrapped, nextSeq, policy, probe>>

Next ==
  \/ Bootstrap
  \/ DispatchNavigate
  \/ Emit
  \/ CompleteIdle
  \/ CompleteNext

Spec == Init /\ [][Next]_vars

\* ================================================================= claims

\* The passes in flight.
Passes == {inners[i].pass : i \in 1..Len(inners)}

\* The pass invoked `hook` and it returned false.
ReturnedFalse(p, hook) ==
  \E k \in 1..Len(p.calls) :
    /\ p.calls[k].hook = hook
    /\ p.calls[k].result = BoolResult(FALSE)

\* The pass invoked `hook` and it returned a Url.
ReturnedUrl(p, hook) ==
  \E k \in 1..Len(p.calls) :
    /\ p.calls[k].hook = hook
    /\ p.calls[k].result.tag = "url"

\* Every guard the pass invoked returned true.
AllGuardsPassed(p) ==
  \A k \in 1..Len(p.calls) : p.calls[k].result = BoolResult(TRUE)

\* ---- C1 ----------------------------------------------------------------

\* C1 (as claimed): in every reachable state, the initial one included, the
\* committed routes are match(url.path) of the committed url.
C1_RoutesAlwaysMatchUrl == state.routes = match(state.url.path)

\* C1 (amended): every reachable state is either the state of construction
\* (default url, routes = []), or its routes are match(url.path) of its url.
C1_RoutesMatchUrlOnceCommitted ==
  state # InitialState => state.routes = match(state.url.path)

\* A commit has happened, and a later pass was redirected away, leaving it.
C1_Witness ==
  /\ state # InitialState
  /\ state.routes # NoRoutes
  /\ done # << >>
  /\ done[1].pass.kind = "redirect"
  /\ done[1].pass.prevUrl = state.url

\* ---- C2 ----------------------------------------------------------------

\* C2: a pass in which an interceptLeave of the committed hierarchy returned
\* false emits no action at all, and while it is in flight and when it ends
\* the RouterState is the one it read at its start.
C2_LeaveRejectIsNoOp ==
  \A p \in Passes :
    ReturnedFalse(p, "interceptLeave") =>
      /\ p.out = << >>
      /\ p.emitted = << >>
      /\ state = Snapshot(p)

\* A pass started by an enter redirect is rejected by the second leave guard,
\* after a dispatchOnLeave action was collected.
C2_Witness ==
  \E p \in Passes :
    /\ ReturnedFalse(p, "interceptLeave")
    /\ p.trigger.type = "InterceptEnterRedirect"
    /\ p.leaveActions # << >>

\* ---- C3 ----------------------------------------------------------------

\* C3: a pass in which an interceptEnter of match(target.path) returned false
\* emits no action, the collected dispatchOnLeave actions included, and the
\* RouterState stays the one it read at its start.
C3_EnterRejectIsNoOp ==
  \A p \in Passes :
    ReturnedFalse(p, "interceptEnter") =>
      /\ p.out = << >>
      /\ p.emitted = << >>
      /\ state = Snapshot(p)

\* An enter guard rejects a pass that had collected leave and enter actions.
C3_Witness ==
  \E p \in Passes :
    /\ ReturnedFalse(p, "interceptEnter")
    /\ p.leaveActions # << >>
    /\ p.enterActions # << >>

\* ---- C4 ----------------------------------------------------------------

\* The routes of a hierarchy whose config declares the hook, in order.
WithDispatchOnLeave(rs) ==
  SelectSeq(rs, LAMBDA r : getRouteConfig(r.routeConfigId).dispatchOnLeave)

WithDispatchOnEnter(rs) ==
  SelectSeq(rs, LAMBDA r : getRouteConfig(r.routeConfigId).dispatchOnEnter)

\* What the store has to observe of a pass whose guards all pass.
ExpectedOrder(p) ==
  LET ls == WithDispatchOnLeave(p.prevRoutes)
      es == WithDispatchOnEnter(match(p.trigger.url.path))
  IN  [i \in 1..Len(ls) |-> DispatchOnLeaveAction(p.prevUrl, ls[i])]
      \o <<NavigationComplete(p.trigger.url, match(p.trigger.url.path))>>
      \o [i \in 1..Len(es) |-> DispatchOnEnterAction(p.prevUrl, es[i])]

\* C4: of a pass whose leave and enter guards all pass, the store observes
\* the dispatchOnLeave actions in committed-hierarchy order, then exactly one
\* NavigationComplete{trigger url, match(trigger url.path)}, then the
\* dispatchOnEnter actions in new-hierarchy order: what it has observed and
\* what is still to come are, together, exactly that sequence.
C4_CommitOrder ==
  \A p \in Passes :
    (p.phase # "leave" /\ AllGuardsPassed(p)) =>
      p.emitted \o p.out = ExpectedOrder(p)

\* A committing pass with two leave and two enter actions has emitted all.
C4_Witness ==
  \E p \in Passes :
    /\ p.phase # "leave" /\ AllGuardsPassed(p)
    /\ p.out = << >>
    /\ Len(p.leaveActions) = 2
    /\ Len(p.enterActions) = 2
    /\ Len(p.emitted) = 5

\* ---- C5 ----------------------------------------------------------------

\* The pass has emitted a NavigationComplete.
HasCommitted(p) ==
  \E k \in 1..Len(p.emitted) : p.emitted[k].type = "NavigationComplete"

\* The configs whose `hook` the pass invoked.
Invoked(p, hook) ==
  {p.calls[k].routeConfigId : k \in {j \in 1..Len(p.calls) : p.calls[j].hook = hook}}

\* C5 (as claimed): once interceptEnter has redirected to u2, the committed
\* url is u2 when the pass for u2 has finished.
C5_RedirectTargetCommitted ==
  \A p \in Passes :
    (p.trigger.type = "InterceptEnterRedirect" /\ p.out = << >>) =>
      state.url = p.trigger.url

\* C5 (amended): a pass whose interceptEnter for target u1 returns u2 commits
\* nothing: all it emits is InterceptEnterRedirect{u2} and the RouterState
\* stays its snapshot.  The pass for u2 starts from the committed state, and
\* when its guards all pass it has invoked every leave guard of the committed
\* hierarchy and every enter guard of match(u2.path) and ends with the state
\* {u2, match(u2.path)}; when one of its guards rejects or redirects, u2 is
\* not committed by it.
C5_EnterRedirectReruns ==
  \A p \in Passes :
    /\ ReturnedUrl(p, "interceptEnter") =>
         /\ \E u2 \in RedirectUrls : p.emitted \o p.out = <<InterceptEnterRedirect(u2)>>
         /\ state = Snapshot(p)
    /\ p.trigger.type = "InterceptEnterRedirect" =>
         /\ ~HasCommitted(p) => state = Snapshot(p)
         /\ (AllGuardsPassed(p) /\ p.phase # "leave") =>
              /\ Invoked(p, "interceptLeave") = LeaveGuarded(p.prevRoutes)
              /\ Invoked(p, "interceptEnter") = EnterGuarded(match(p.trigger.url.path))
              /\ p.out = << >> =>
                   state = [url |-> p.trigger.url, routes |-> match(p.trigger.url.path)]
         /\ ~AllGuardsPassed(p) => ~HasCommitted(p)

\* The pass for u1 was redirected by interceptEnter to u2 # u1, and the pass
\* for u2 has run a leave guard of the committed hierarchy and committed u2.
C5_Witness ==
  \E p \in Passes :
    /\ p.trigger.type = "InterceptEnterRedirect"
    /\ p.out = << >> /\ HasCommitted(p)
    /\ Invoked(p, "interceptLeave") # {}
    /\ state.url = p.trigger.url
    /\ done # << >>
    /\ ReturnedUrl(done[1].pass, "interceptEnter")
    /\ done[1].pass.redirectUrl = p.trigger.url
    /\ done[1].pass.nextUrl # p.trigger.url
    /\ done[1].pass.prevUrl # p.trigger.url

\* ---- C6 ----------------------------------------------------------------

\* C6: when the pass of Navigate(u) has emitted all its actions, and neither
\* the committed hierarchy it left nor match(u.path) declares a guard, the
\* RouterState is {u, match(u.path)}.
C6_UnguardedNavigateCommits ==
  \A p \in Passes :
    ( /\ p.trigger.type = "Navigate"
      /\ LeaveGuarded(p.prevRoutes) = {}
      /\ EnterGuarded(match(p.trigger.url.path)) = {}
      /\ p.out = << >> ) =>
      state = [url |-> p.trigger.url, routes |-> match(p.trigger.url.path)]

\* An unguarded Navigate from one non-empty hierarchy to another is done.
C6_Witness ==
  \E p \in Passes :
    /\ p.trigger.type = "Navigate"
    /\ LeaveGuarded(p.prevRoutes) = {}
    /\ EnterGuarded(match(p.trigger.url.path)) = {}
    /\ p.out = << >>
    /\ p.prevRoutes # NoRoutes
    /\ state.routes # NoRoutes
    /\ state.routes # p.prevRoutes

\* ---- C7 ----------------------------------------------------------------

C8_OnePassAtATime ==
  /\ Len(inners) <= 1
  /\ buffer # << >> => Len(inners) = 1

\* A pass is emitting while an external Navigate and a redirect wait.
C8_Witness ==
  /\ Len(inners) = 1
  /\ inners[1].pass.out # << >>
  /\ inners[1].pass.emitted # << >>
  /\ \E j \in 1..Len(buffer) : buffer[j].action.type = "Navigate"
  /\ \E j \in 1..Len(buffer) : buffer[j].action.type # "Navigate"

\* ---- C9 ----------------------------------------------------------------

\* C9: triggers are processed in the order they entered the action stream:
\* the waiting triggers are in entry order, all entered after the trigger of
\* the pass in flight, which is the one that entered right after the trigger
\* of the pass completed last; so a redirect waits behind every trigger that
\* was waiting when it was emitted.
C9_TriggersInEntryOrder ==
  /\ \A j, k \in 1..Len(buffer) : j < k => buffer[j].seq < buffer[k].seq
  /\ \A i \in 1..Len(inners) :
       /\ \A j \in 1..Len(buffer) : inners[i].seq < buffer[j].seq
       /\ done # << >> => inners[i].seq = done[1].seq + 1
       /\ done = << >> => inners[i].seq = 1
  /\ (done # << >> /\ buffer # << >>) => done[1].seq < buffer[1].seq

\* A redirect waits behind an external Navigate that was queued before it.
C9_Witness ==
  \E j, k \in 1..Len(buffer) :
    /\ j < k
    /\ buffer[j].action.type = "Navigate"
    /\ buffer[k].action.type \in {"InterceptLeaveRedirect", "InterceptEnterRedirect"}

\* ---- C10 ---------------------------------------------------------------

\* C10: once a pass has emitted NavigationComplete{url, routes}, the
\* RouterState is exactly {url, routes} of that one action.
C10_CommitReplacesBoth ==
  \A p \in Passes : \A k \in 1..Len(p.emitted) :
    p.emitted[k].type = "NavigationComplete" =>
      state = [url |-> p.emitted[k].url, routes |-> p.emitted[k].routes]

\* A commit replaced a url and a hierarchy by another url and hierarchy.
C10_Witness ==
  \E p \in Passes :
    /\ HasCommitted(p)
    /\ p.prevRoutes # NoRoutes
    /\ state.url # p.prevUrl
    /\ state.routes # p.prevRoutes
    /\ state.routes # NoRoutes

\* ---- C11 ---------------------------------------------------------------

\* C11: the RouterState changes only in a step in which a pass emits a
\* NavigationComplete: the dispatch of a Navigate (router.navigate(url) only
\* builds the action), of a redirect or of a hook-produced action leaves url
\* and routes as they are.
C11_OnlyCommitWritesState ==
  [][ state' # state =>
        \E i \in 1..Len(inners) :
          /\ inners[i].pass.out # << >>
          /\ Head(inners[i].pass.out).type = "NavigationComplete"
          /\ Len(inners') >= i
          /\ inners'[i].pass.emitted =
               Append(inners[i].pass.emitted, Head(inners[i].pass.out)) ]_vars

\* A pass has emitted a dispatchOnLeave action and not yet its commit, a
\* trigger was dispatched meanwhile, and the state is still the one the pass
\* read.
C11_Witness ==
  \E p \in Passes :
    /\ p.emitted # << >>
    /\ ~HasCommitted(p)
    /\ p.kind = "commit"
    /\ state = Snapshot(p)
    /\ state # InitialState
    /\ \E j \in 1..Len(buffer) : buffer[j].seq > inners[1].seq

\* ---- C12 ---------------------------------------------------------------

\* The pass ended with a hook throwing: the last hook it invoked.
Threw(p) ==
  /\ p.kind = "throw"
  /\ p.calls # << >>
  /\ p.calls[Len(p.calls)].result = ThrowResult

\* C12: a pass in which a hook throws emits nothing, neither a
\* NavigationComplete nor the dispatchOnLeave / dispatchOnEnter actions it
\* had collected, and the RouterState is still the one the pass read; no pass
\* that emits is one in which a hook threw.
C12_ThrowEmitsNothing ==
  /\ \A p \in Passes : p.kind # "throw" /\ \A k \in 1..Len(p.calls) :
                                             p.calls[k].result # ThrowResult
  /\ fault # << >> =>
       /\ Threw(fault[1].pass)
       /\ fault[1].pass.out = << >>
       /\ fault[1].pass.emitted = << >>
       /\ state = Snapshot(fault[1].pass)
       /\ inners = << >>

\* dispatchOnEnter threw in a pass that had collected a dispatchOnLeave and a
\* dispatchOnEnter action, from a committed non-empty hierarchy.
C12_Witness ==
  /\ fault # << >>
  /\ fault[1].pass.phase = "enter"
  /\ fault[1].pass.leaveActions # << >>
  /\ fault[1].pass.enterActions # << >>
  /\ fault[1].pass.calls[Len(fault[1].pass.calls)].hook = "dispatchOnEnter"
  /\ state.routes # NoRoutes
  /\ state = Snapshot(fault[1].pass)

\* ---- C13 ---------------------------------------------------------------

\* The number of NavigationComplete actions in a sequence of actions.
NavigationCompletes(actions) ==
  Cardinality({k \in 1..Len(actions) : actions[k].type = "NavigationComplete"})

\* The passes the router has run that are still on record: those in flight,
\* the one completed last and the one a hook threw in.
RecordedPasses ==
  Passes \cup {done[k].pass : k \in 1..Len(done)}
         \cup {fault[k].pass : k \in 1..Len(fault)}

\* Every leave and enter guard the pass invoked passed and no hook threw.
Successful(p) ==
  \A k \in 1..Len(p.calls) : p.calls[k].result = BoolResult(TRUE)

\* C13: the observable of a pass carries exactly one NavigationComplete when
\* the pass is successful and none when it ended in a rejection, a redirect
\* or a fault; a completed successful pass has emitted its one
\* NavigationComplete and left its target committed, a completed unsuccessful
\* pass has left the RouterState it read.
C13_OneCommitPerSuccessfulPass ==
  /\ \A p \in RecordedPasses :
       /\ NavigationCompletes(p.emitted \o p.out) = (IF Successful(p) THEN 1 ELSE 0)
       /\ Successful(p) <=> p.kind = "commit"
       /\ p.kind \in {"commit", "empty", "redirect", "throw"}
  /\ \A k \in 1..Len(done) :
       /\ NavigationCompletes(done[k].pass.emitted) =
            (IF Successful(done[k].pass) THEN 1 ELSE 0)
       /\ done[k].after =
            (IF Successful(done[k].pass)
               THEN [url |-> done[k].pass.nextUrl, routes |-> done[k].pass.nextRoutes]
               ELSE Snapshot(done[k].pass))

\* A successful pass with guards and dispatch hooks on both sides has
\* completed and moved the RouterState, and the pass after it, in flight, is
\* a redirect that carries no NavigationComplete.
C13_Witness ==
  /\ done # << >>
  /\ Successful(done[1].pass)
  /\ done[1].pass.leaveActions # << >>
  /\ done[1].pass.enterActions # << >>
  /\ done[1].after # Snapshot(done[1].pass)
  /\ \E p \in Passes : p.kind = "redirect" /\ p.out = << >> /\ p.emitted # << >>

\* ---- C14 ---------------------------------------------------------------

\* The RouterState committed when the pass in flight started: no pass has
\* written since the last one completed.
CommittedAtStart == IF done = << >> THEN InitialState ELSE done[1].after

\* The pass completed last is the one that emitted the trigger of inner.
EmittedBy(inner) ==
  /\ done # << >>
  /\ done[1].root = inner.root
  /\ done[1].pass.emitted = <<inner.pass.trigger>>

\* Every pass, that of a redirect included, read the RouterState committed at
\* its start, and its leave guards are those of that hierarchy.
ReadsCommittedState ==
  /\ \A p \in Passes :
       /\ Snapshot(p) = CommittedAtStart
       /\ Invoked(p, "interceptLeave") \subseteq LeaveGuarded(CommittedAtStart.routes)
       /\ (AllGuardsPassed(p) /\ p.phase # "leave") =>
            Invoked(p, "interceptLeave") = LeaveGuarded(CommittedAtStart.routes)
  /\ \A k \in 1..Len(fault) : Snapshot(fault[k].pass) = state

CompleteNextEnabled ==
  /\ fault = << >>
  /\ buffer # << >>
  /\ \E i \in 1..Len(inners) : InnerComplete(inners[i].pass)

\* WF_vars(CompleteNext), with ENABLED <<CompleteNext>>_vars written out.
FairCompleteNext == []<>(~CompleteNextEnabled) \/ []<><<CompleteNext>>_vars

\* An inner observable is of(...) or EMPTY: it emits its actions and
\* completes synchronously, so no emission or completion is put off forever.
Fairness ==
  /\ WF_vars(Emit)
  /\ WF_vars(CompleteIdle)
  /\ FairCompleteNext

\* The router with enter guards that redirect into each other.
SpecCycle == RouterInit(CyclePolicy) /\ [][Next]_vars /\ Fairness

\* The Urls whose enter guards redirect into each other under CyclePolicy:
\* /b (config 4) to /a/x, /a/x (config 3) to /b.
CyclicUrls == {UrlB, UrlAX}

\* A trigger for a Url of the cycle is waiting or has its pass in flight.
CycleEntered ==
  \/ \E i \in 1..Len(inners) : inners[i].pass.trigger.url \in CyclicUrls
  \/ \E j \in 1..Len(buffer) : buffer[j].action.url \in CyclicUrls

\* The router is idle with an empty trigger queue.
Idle == inners = << >> /\ buffer = << >>

\* A pass of the cycle has its redirect still to emit / has emitted it.
RedirectToEmit ==
  \E p \in Passes : p.trigger.url \in CyclicUrls /\ p.kind = "redirect" /\ p.out # << >>

RedirectEmitted ==
  \E p \in Passes : p.trigger.url \in CyclicUrls /\ p.kind = "redirect" /\ p.emitted # << >>

\* C15: with guards that redirect into each other, once a Navigate into the
\* cycle is dispatched the router never commits a Url of the cycle, is never
\* idle again with an empty queue, and keeps starting passes that each end
\* in a further redirect, without end.
C15_RedirectCycleNeverSettles ==
  /\ [](\A p \in RecordedPasses :
          p.trigger.url \in CyclicUrls =>
            p.kind = "redirect" /\ NavigationCompletes(p.emitted \o p.out) = 0)
  /\ [](state.url \notin CyclicUrls)
  /\ [](CycleEntered => [](CycleEntered /\ ~Idle))
  /\ CycleEntered ~> RedirectToEmit
  /\ CycleEntered ~> RedirectEmitted

\* The chain of redirect passes started by one Navigate has outrun the
\* trigger budget: its pass in flight is a redirect of that Navigate, past
\* the last position a Navigate can take, with nothing else waiting.
C15_Witness ==
  /\ policy = CyclePolicy
  /\ buffer = << >>
  /\ \E i \in 1..Len(inners) :
       /\ inners[i].pass.trigger.type = "InterceptEnterRedirect"
       /\ inners[i].seq > MaxTriggers + 1
       /\ inners[i].root = 2
       /\ inners[i].pass.kind = "redirect"
       /\ inners[i].pass.out # << >>
  /\ done # << >> /\ done[1].root = 2 /\ done[1].pass.kind = "redirect"

\* ---- C16 ---------------------------------------------------------------

\* The target of the pass matches no route.
Unmatched(p) == match(p.trigger.url.path) = NoRoutes

\* C16: a pass to a Url that matches no route, once its leave guards passed,
\* invokes no enter hook and commits NavigationComplete(url, []) after its
\* leave actions; when it completes the state is {url: target, routes: []};
\* a pass that starts from an empty hierarchy invokes no leave hook, reaches
\* the enter phase, and commits its target when its guards pass.
C16_NoMatchCommitsEmptyRoutes ==
  /\ \A p \in RecordedPasses :
       /\ (Unmatched(p) /\ p.phase # "leave") =>
            /\ p.kind = "commit"
            /\ p.nextRoutes = NoRoutes
            /\ Invoked(p, "interceptEnter") \cup Invoked(p, "dispatchOnEnter") = {}
            /\ p.emitted \o p.out =
                 p.leaveActions \o <<NavigationComplete(p.trigger.url, NoRoutes)>>
       /\ p.prevRoutes = NoRoutes =>
            /\ Invoked(p, "interceptLeave") \cup Invoked(p, "dispatchOnLeave") = {}
            /\ p.phase # "leave"
            /\ p.leaveActions = << >>
  /\ \A k \in 1..Len(done) :
       /\ (Unmatched(done[k].pass) /\ done[k].pass.phase # "leave") =>
            done[k].after = [url |-> done[k].pass.trigger.url, routes |-> NoRoutes]
       /\ (done[k].pass.prevRoutes = NoRoutes /\ AllGuardsPassed(done[k].pass)) =>
            done[k].after = [url |-> done[k].pass.trigger.url,
                             routes |-> match(done[k].pass.trigger.url.path)]

\* A pass that left a guarded hierarchy for an unmatched Url has completed,
\* and the next pass, started from {that url, []}, has committed a matched
\* hierarchy behind an enter guard.
C16_Witness ==
  /\ done # << >>
  /\ Unmatched(done[1].pass)
  /\ done[1].pass.leaveActions # << >>
  /\ done[1].after = [url |-> UrlNone, routes |-> NoRoutes]
  /\ \E p \in Passes :
       /\ Snapshot(p) = done[1].after
       /\ Invoked(p, "interceptEnter") # {}
       /\ HasCommitted(p)
       /\ p.out = << >>
       /\ state.routes # NoRoutes

\* ---- C17 ---------------------------------------------------------------

\* The router with guards that return true or false, that of /b always
\* false, its inner observables emitting and completing without delay.
SpecReject == RouterInit(RejectPolicy) /\ [][Next]_vars /\ Fairness

\* The positions in the action stream that the Navigates of callers take:
\* the first is the bootstrap's, and no guard redirects here.
Positions == 2..MaxTriggers

\* The pass of the trigger at position s is in flight, aborted by a guard
\* that returned false.
RejectedInFlight(s) ==
  \E i \in 1..Len(inners) : inners[i].seq = s /\ inners[i].pass.kind = "empty"

\* The pass of the trigger at position s is in flight with every guard
\* passing, right after a pass that a guard aborted.
PassingAfterRejected(s) ==
  /\ done # << >>
  /\ done[1].pass.kind = "empty"
  /\ \E i \in 1..Len(inners) : inners[i].seq = s /\ Successful(inners[i].pass)

\* The trigger at position s waits while an aborted pass is in flight.
WaitsBehindRejected(s) ==
  /\ \E p \in Passes : p.kind = "empty"
  /\ \E j \in 1..Len(buffer) : buffer[j].seq = s

\* The pass of the trigger at position s has started (or a hook threw).
Started(s) ==
  \/ fault # << >>
  \/ \E i \in 1..Len(inners) : inners[i].seq = s

\* C17: a pass aborted by a guard returning false completes with the state
\* it read, leaving the router idle unless a trigger waits; a trigger that
\* waits behind it gets its pass; and a pass that runs after it with every
\* guard passing completes with its target committed.
C17_RejectionDoesNotBlock ==
  /\ [](\A k \in 1..Len(done) :
          (done[k].pass.kind = "empty" /\ buffer = << >> /\ Passes = {}) => Idle)
  /\ \A s \in Positions :
       /\ [](RejectedInFlight(s) =>
               <>(\E k \in 1..Len(done) :
                    /\ done[k].seq = s
                    /\ done[k].after = Snapshot(done[k].pass)))
       /\ WaitsBehindRejected(s) ~> Started(s)
       /\ [](PassingAfterRejected(s) =>
               <>(\E k \in 1..Len(done) :
                    /\ done[k].seq = s
                    /\ done[k].after =
                         [url |-> done[k].pass.trigger.url,
                          routes |-> match(done[k].pass.trigger.url.path)]))

\* navigate(/b) was rejected by interceptEnter from the hierarchy of /a, and
\* the pass of the Navigate to /a/x that ran next has committed its target.
C17_Witness ==
  /\ policy = RejectPolicy
  /\ done # << >>
  /\ done[1].pass.trigger = Navigate(UrlB)
  /\ ReturnedFalse(done[1].pass, "interceptEnter")
  /\ done[1].after = [url |-> UrlA, routes |-> match(UrlA.path)]
  /\ \E p \in Passes :
       /\ p.trigger = Navigate(UrlAX)
       /\ Successful(p)
       /\ HasCommitted(p)
       /\ p.out = << >>
       /\ state = [url |-> UrlAX, routes |-> match(UrlAX.path)]

\* ---- C18 ---------------------------------------------------------------

\* The passes on record with their positions.
RecordedInners ==
  {inners[i] : i \in 1..Len(inners)} \cup {done[k] : k \in 1..Len(done)}
    \cup {fault[k] : k \in 1..Len(fault)}

\* What the pipeline makes of a Navigate to the default Url dispatched by a
\* caller on the state of construction (no hook is declared on its way).
FirstPass ==
  Project(Navigate(DefaultUrl), InitialState, << >>, << >>, NoHook)

\* C18: the first trigger of the action stream is the one Navigate the router
\* synthesizes, for the default Url; before it nothing has happened, it is
\* emitted in no later step, and its pass is the pass the pipeline runs for
\* any Navigate to that Url from the state of construction, whose commit is
\* the first write of the RouterState.
C18_BootstrapOnce ==
  /\ [](~bootstrapped =>
          (state = InitialState /\ Idle /\ nextSeq = 1 /\ done = << >>))
  /\ [](bootstrapped => nextSeq > 1)
  /\ [][Bootstrap => (~bootstrapped /\ bootstrapped' /\ nextSeq = 1)]_vars
  /\ [][bootstrapped => bootstrapped']_vars
  /\ [](\A inner \in RecordedInners :
          inner.seq = 1 =>
            /\ inner.root = 1
            /\ inner.pass.trigger = Navigate(DefaultUrl)
            /\ Snapshot(inner.pass) = InitialState
            /\ inner.pass.emitted \o inner.pass.out = FirstPass.out
            /\ [inner.pass EXCEPT !.emitted = << >>, !.out = << >>]
                 = [FirstPass EXCEPT !.out = << >>]
            /\ ~HasCommitted(inner.pass) => state = InitialState)
  /\ [](\A k \in 1..Len(done) :
          done[k].seq = 1 =>
            done[k].after = [url |-> DefaultUrl, routes |-> match(DefaultUrl.path)])

\* The bootstrap pass has completed with the first commit, the index route,
\* and the pass of a Navigate dispatched by a caller is in flight.
C18_Witness ==
  /\ bootstrapped
  /\ done # << >>
  /\ done[1].seq = 1
  /\ done[1].after.routes # NoRoutes
  /\ state = done[1].after
  /\ \E i \in 1..Len(inners) :
       /\ inners[i].seq = 2
       /\ inners[i].pass.trigger.url # DefaultUrl
       /\ inners[i].pass.prevRoutes = match(DefaultUrl.path)

\* ---- C19 ---------------------------------------------------------------

\* The configs registries are drawn from: /a, /:p, /a/:q (child of /a),
\* /:p/x (child of /:p) and /a/x (child of /a).
ConfigPool ==
  { [id |-> 1, pattern |-> <<"a">>, parent |-> 0],
    [id |-> 2, pattern |-> <<":p">>, parent |-> 0],
    [id |-> 3, pattern |-> <<":q">>, parent |-> 1],
    [id |-> 4, pattern |-> <<"x">>, parent |-> 2],
    [id |-> 5, pattern |-> <<"x">>, parent |-> 1] }

\* The sets of configs a registry can hold: at least two, each with its
\* parent.
ConfigSets ==
  {S \in SUBSET ConfigPool :
     /\ Cardinality(S) >= 2
     /\ \A c \in S : c.parent = 0 \/ \E d \in S : d.id = c.parent}

\* The registries: every registration order of every such set.
Registries ==
  UNION {{reg \in [1..Cardinality(S) -> S] :
            \A i, j \in 1..Cardinality(S) : reg[i] = reg[j] => i = j} :
         S \in ConfigSets}

ProbeSegments == {"a", "x", "zz"}

ProbePaths == UNION {[1..n -> ProbeSegments] : n \in 0..MaxPathLen}

\* A matcher constructed with some registry, about to be asked some path.
MatchInit ==
  /\ state = InitialState
  /\ inners = << >>
  /\ buffer = << >>
  /\ bootstrapped = FALSE
  /\ nextSeq = 1
  /\ done = << >>
  /\ fault = << >>
  /\ policy = AnyPolicy({})
  /\ probe \in {[registry |-> reg, path |-> path, result |-> << >>, applied |-> FALSE] :
                  reg \in Registries, path \in ProbePaths}

\* match(path) is called on the matcher.
ApplyMatch ==
  /\ ~probe.applied
  /\ probe' = [probe EXCEPT !.result = MatchIn(probe.registry, probe.path),
                            !.applied = TRUE]
  /\ UNCHANGED <<state, inners, buffer, bootstrapped, nextSeq, done, fault, policy>>

SpecMatch == MatchInit /\ [][ApplyMatch]_vars

\* The config of the innermost route of a hierarchy (0 if it is empty).
Leaf(rs) == IF rs = << >> THEN 0 ELSE rs[Len(rs)].routeConfigId

\* c1 has a literal and c2 a placeholder at position i of the path.
LiteralAgainstParam(reg, c1, c2, i) ==
  /\ ~IsParam(FullPatternIn(reg, c1)[i])
  /\ IsParam(FullPatternIn(reg, c2)[i])

\* The first position at which the patterns of c1 and c2 differ in kind.
FirstKindDiff(reg, c1, c2) ==
  CHOOSE i \in KindDiff(FullPatternIn(reg, c1), FullPatternIn(reg, c2)) :
    \A j \in KindDiff(FullPatternIn(reg, c1), FullPatternIn(reg, c2)) : i <= j

\* The registry with its configs registered in the order of their ids.
RECURSIVE ById(_)
ById(S) ==
  IF S = {} THEN << >>
  ELSE <<CHOOSE c \in S : \A d \in S : c.id <= d.id>>
         \o ById(S \ {CHOOSE c \in S : \A d \in S : c.id <= d.id})

Canonical(reg) == ById({reg[i] : i \in 1..Len(reg)})

EnterGuardedConfigs == {id \in RouteConfigIds : getRouteConfig(id).interceptEnter}

\* The router in an application where the interceptEnter hook of one config
\* never returns true; every other hook may do anything.
SpecDeny ==
  /\ \E r \in EnterGuardedConfigs : RouterInit(AnyPolicy({r}))
  /\ [][Next]_vars

\* The configs of the routes of a hierarchy.
ConfigsOf(rs) == {rs[i].routeConfigId : i \in 1..Len(rs)}

\* C20: when the interceptEnter hook of a config never returns true, no
\* route of that config is ever in the committed hierarchy, no pass carries
\* a NavigationComplete with one, and every pass whose target matches one
\* ends without a commit.
C20_DeniedRouteNeverCommitted ==
  /\ ConfigsOf(state.routes) \cap policy.denied = {}
  /\ \A p \in RecordedPasses :
       /\ \A k \in 1..Len(p.calls) :
            (p.calls[k].hook = "interceptEnter" /\ p.calls[k].routeConfigId \in policy.denied)
              => p.calls[k].result # BoolResult(TRUE)
       /\ \A k \in 1..Len(p.emitted \o p.out) :
            (p.emitted \o p.out)[k].type = "NavigationComplete" =>
              ConfigsOf((p.emitted \o p.out)[k].routes) \cap policy.denied = {}
       /\ ConfigsOf(match(p.trigger.url.path)) \cap policy.denied # {} =>
            p.kind # "commit"
       /\ ConfigsOf(p.prevRoutes) \cap policy.denied = {}

\* With the enter guard of /a/:p denying, /a has been committed, a Navigate
\* to /a/x has been rejected by that guard, a second one is being rejected,
\* and the committed hierarchy is still that of /a.
C20_Witness ==
  /\ policy.denied = {3}
  /\ state = [url |-> UrlA, routes |-> match(UrlA.path)]
  /\ done # << >>
  /\ done[1].pass.trigger = Navigate(UrlAX)
  /\ ReturnedFalse(done[1].pass, "interceptEnter")
  /\ \E p \in Passes :
       /\ p.trigger = Navigate(UrlAX)
       /\ 3 \in Invoked(p, "interceptEnter")
       /\ p.leaveActions # << >>
       /\ p.kind = "empty"

\* ------------------------------------------------------- leave redirect loop

\* The router whose leave guard of /a answers every navigation with a Url.
SpecLeaveLoop == RouterInit(LeaveLoopPolicy) /\ [][Next]_vars /\ Fairness

\* The committed hierarchy holds a route of the config whose interceptLeave
\* returns a Url.
LeaveLoopHeld(rs) == 2 \in ConfigsOf(rs)

\* A trigger is waiting, or has its pass in flight, to navigate away from
\* the held hierarchy.
LeaveLoopEntered ==
  /\ LeaveLoopHeld(state.routes)
  /\ \/ buffer # << >>
     \/ \E p \in Passes : LeaveLoopHeld(p.prevRoutes)

\* A pass over the held hierarchy has its InterceptLeaveRedirect still to
\* emit / has emitted it.
LeaveRedirectToEmit ==
  \E p \in Passes :
    /\ LeaveLoopHeld(p.prevRoutes)
    /\ p.out = <<InterceptLeaveRedirect(LeaveLoopTarget)>>

LeaveRedirectEmitted ==
  \E p \in Passes :
    /\ LeaveLoopHeld(p.prevRoutes)
    /\ p.emitted = <<InterceptLeaveRedirect(LeaveLoopTarget)>>

\* C21: when the interceptLeave hook of the committed hierarchy returns a
\* Url whatever the trigger, every pass that reads that hierarchy (those of
\* the InterceptLeaveRedirect triggers included) invokes that hook alone and
\* redirects again without a NavigationComplete; the committed state never
\* changes again, so the redirect target is never committed, and once a
\* trigger arrives the router is never idle again: redirect passes recur
\* forever.
C21_LeaveRedirectLoopsForever ==
  /\ [](\A p \in RecordedPasses :
          LeaveLoopHeld(p.prevRoutes) =>
            /\ p.kind = "redirect" /\ p.phase = "leave"
            /\ Len(p.calls) = 1
            /\ p.calls[1].hook = "interceptLeave"
            /\ p.calls[1].routeConfigId = 2
            /\ p.calls[1].result = UrlResult(LeaveLoopTarget)
            /\ p.emitted \o p.out = <<InterceptLeaveRedirect(LeaveLoopTarget)>>
            /\ NavigationCompletes(p.emitted \o p.out) = 0)
  /\ [](\A p \in Passes :
          (p.trigger.type = "InterceptLeaveRedirect" /\ p.emitted = << >>) =>
            /\ LeaveLoopHeld(p.prevRoutes)
            /\ Snapshot(p) = state)
  /\ [][LeaveLoopHeld(state.routes) => state' = state]_vars
  /\ [](LeaveLoopEntered => [](LeaveLoopEntered /\ ~Idle))
  /\ LeaveLoopEntered ~> LeaveRedirectToEmit
  /\ LeaveLoopEntered ~> LeaveRedirectEmitted

\* /a is committed and a Navigate away from it has been redirected so often
\* that its InterceptLeaveRedirect triggers have outrun the trigger budget:
\* the pass in flight is one more redirect out of the same hierarchy.
C21_Witness ==
  /\ policy = LeaveLoopPolicy
  /\ state.url = UrlA
  /\ buffer = << >>
  /\ \E i \in 1..Len(inners) :
       /\ inners[i].pass.trigger.type = "InterceptLeaveRedirect"
       /\ inners[i].pass.trigger.url = LeaveLoopTarget
       /\ inners[i].seq > MaxTriggers + 1
       /\ inners[i].root = 3
       /\ inners[i].pass.kind = "redirect"
       /\ inners[i].pass.out # << >>
  /\ done # << >> /\ done[1].root = 3 /\ done[1].pass.kind = "redirect"
       /\ done[1].pass.trigger.type = "InterceptLeaveRedirect"

\* ------------------------------------------------------- order of the hooks

\* The hooks a loop over the hierarchy rs invokes from index i on when no
\* guard stops it: for each route in array order its guard, then its
\* dispatch hook, each if the config declares it.
RECURSIVE HookOrder(_, _, _, _)
HookOrder(rs, guard, dispatch, i) ==
  IF i > Len(rs) THEN << >>
  ELSE (IF guard = "interceptLeave" /\ getRouteConfig(rs[i].routeConfigId).interceptLeave
          THEN <<Hook(guard, rs[i].routeConfigId)>>
        ELSE IF guard = "interceptEnter" /\ getRouteConfig(rs[i].routeConfigId).interceptEnter
          THEN <<Hook(guard, rs[i].routeConfigId)>>
        ELSE << >>)
    \o (IF dispatch = "dispatchOnLeave" /\ getRouteConfig(rs[i].routeConfigId).dispatchOnLeave
          THEN <<Hook(dispatch, rs[i].routeConfigId)>>
        ELSE IF dispatch = "dispatchOnEnter" /\ getRouteConfig(rs[i].routeConfigId).dispatchOnEnter
          THEN <<Hook(dispatch, rs[i].routeConfigId)>>
        ELSE << >>)
    \o HookOrder(rs, guard, dispatch, i + 1)

\* The hooks of a whole pass over prevRoutes towards the target of the
\* trigger: every leave hook, then every enter hook.
PassHookOrder(p) ==
  HookOrder(p.prevRoutes, "interceptLeave", "dispatchOnLeave", 1)
    \o HookOrder(match(p.trigger.url.path), "interceptEnter", "dispatchOnEnter", 1)

\* The hooks the pass invoked, in the order of their invocation.
InvokedHooks(p) ==
  [k \in 1..Len(p.calls) |-> Hook(p.calls[k].hook, p.calls[k].routeConfigId)]

\* The call returned true (a guard) or its action (a dispatch hook).
Passed(call) == call.result = BoolResult(TRUE)

LeaveHookNames == {"interceptLeave", "dispatchOnLeave"}

\* C22: the hooks a pass invokes are an initial part of the fixed order
\* (leave hooks over prevRoutes in array order, for each route interceptLeave
\* then dispatchOnLeave, then the enter hooks over the matched hierarchy in
\* the same way); the invocations stop with the first hook that does not
\* pass, so a guard that returned false or a Url is the last hook of its
\* pass, and otherwise no hook of the order is left out; a pass that ends in
\* the leave phase has not called match and has invoked no enter hook.
C22_HooksInOrderShortCircuit ==
  \A p \in RecordedPasses :
    /\ Len(p.calls) <= Len(PassHookOrder(p))
    /\ InvokedHooks(p) = SubSeq(PassHookOrder(p), 1, Len(p.calls))
    /\ \A k \in 1..Len(p.calls) : ~Passed(p.calls[k]) => k = Len(p.calls)
    /\ (\A k \in 1..Len(p.calls) : Passed(p.calls[k])) =>
         /\ InvokedHooks(p) = PassHookOrder(p)
         /\ p.kind = "commit"
    /\ (\E k \in 1..Len(p.calls) : ~Passed(p.calls[k])) => p.kind # "commit"
    /\ p.phase = "leave" =>
         /\ p.nextRoutes = NoRoutes
         /\ \A k \in 1..Len(p.calls) : p.calls[k].hook \in LeaveHookNames
    /\ \A k \in 1..Len(p.calls) :
         p.calls[k].hook \notin LeaveHookNames =>
           /\ p.nextRoutes = match(p.trigger.url.path)
           /\ k > Len(HookOrder(p.prevRoutes, "interceptLeave", "dispatchOnLeave", 1))

\* Leaving /a/x, the pass that just completed ran interceptLeave and
\* dispatchOnLeave of /a and stopped at the interceptLeave of /a/:p, which
\* returned false; the pass in flight, back to /a/x, ran all four leave
\* hooks, dispatchOnEnter of /a, and stopped at the interceptEnter of /a/:p,
\* leaving its dispatchOnEnter out.
C22_Witness ==
  /\ done # << >>
  /\ ConfigsOf(done[1].pass.prevRoutes) = {2, 3}
  /\ Len(done[1].pass.calls) = 3
  /\ done[1].pass.calls[3] = [hook |-> "interceptLeave", routeConfigId |-> 3,
                              result |-> BoolResult(FALSE)]
  /\ \E p \in Passes :
       /\ ConfigsOf(p.prevRoutes) = {2, 3}
       /\ p.trigger.url = UrlAX
       /\ Len(p.calls) = 6
       /\ Len(PassHookOrder(p)) = 7
       /\ p.calls[6].hook = "interceptEnter"
       /\ p.calls[6].result = BoolResult(FALSE)
       /\ p.kind = "empty"

\* ------------------------------------------- actions of an abandoned pass

DispatchTypes == {"dispatchOnLeave", "dispatchOnEnter"}

\* How many times the pass invoked dispatchOnLeave of the config id.
DispatchOnLeaveCalls(p, id) ==
  Cardinality({k \in 1..Len(p.calls) :
                 p.calls[k].hook = "dispatchOnLeave" /\ p.calls[k].routeConfigId = id})

\* How many dispatchOnLeave actions of the config id are among the actions.
DispatchOnLeaveActions(actions, id) ==
  Cardinality({k \in 1..Len(actions) :
                 actions[k].type = "dispatchOnLeave" /\ actions[k].routeConfigId = id})

\* The configs of a hierarchy that declare dispatchOnLeave.
DispatchingOnLeave(rs) == {id \in ConfigsOf(rs) : getRouteConfig(id).dispatchOnLeave}

\* The pass in flight is that of an InterceptEnterRedirect and commits, and
\* the pass completed last is the one whose enter guard emitted its trigger.
RedirectedThenCommits(inner) ==
  /\ inner.pass.trigger.type = "InterceptEnterRedirect"
  /\ inner.pass.kind = "commit"
  /\ done # << >>
  /\ done[1].root = inner.root
  /\ done[1].pass.kind = "redirect"
  /\ done[1].pass.phase = "enter"

\* C23: a pass that ends in a rejection or a redirect emits none of the
\* dispatchOnLeave / dispatchOnEnter actions it collected.  When a pass is
\* redirected by an enter guard and the pass of its InterceptEnterRedirect
\* commits, both read the same hierarchy and each invoked every
\* dispatchOnLeave hook of it once; the redirected pass emitted only the
\* redirect, the committing pass emits what it collected itself, so each
\* dispatchOnLeave action goes out once over the two passes.
C23_AbandonedActionsDiscarded ==
  /\ \A p \in RecordedPasses :
       p.kind \in {"empty", "redirect"} =>
         \A k \in 1..Len(p.emitted \o p.out) :
           (p.emitted \o p.out)[k].type \notin DispatchTypes
  /\ \A i \in 1..Len(inners) :
       RedirectedThenCommits(inners[i]) =>
         /\ Snapshot(inners[i].pass) = Snapshot(done[1].pass)
         /\ inners[i].pass.trigger.url = done[1].pass.redirectUrl
         /\ done[1].pass.emitted = <<InterceptEnterRedirect(done[1].pass.redirectUrl)>>
         /\ done[1].pass.out = << >>
         /\ inners[i].pass.emitted \o inners[i].pass.out =
              CommitActions(inners[i].pass.leaveActions, inners[i].pass.nextUrl,
                            inners[i].pass.nextRoutes, inners[i].pass.enterActions)
         /\ \A id \in DispatchingOnLeave(inners[i].pass.prevRoutes) :
              /\ DispatchOnLeaveCalls(done[1].pass, id) = 1
              /\ DispatchOnLeaveCalls(inners[i].pass, id) = 1
              /\ DispatchOnLeaveActions(done[1].pass.leaveActions, id) = 1
              /\ DispatchOnLeaveActions(inners[i].pass.leaveActions, id) = 1
              /\ DispatchOnLeaveActions(done[1].pass.emitted, id) = 0
              /\ DispatchOnLeaveActions(
                   done[1].pass.emitted \o inners[i].pass.emitted \o inners[i].pass.out,
                   id) = 1

\* A navigation out of a hierarchy with dispatchOnLeave hooks was redirected
\* by an enter guard after it had collected their actions, and the pass of
\* the redirect has committed and emitted everything.
C23_Witness ==
  \E i \in 1..Len(inners) :
    /\ RedirectedThenCommits(inners[i])
    /\ done[1].pass.trigger.type = "Navigate"
    /\ DispatchingOnLeave(inners[i].pass.prevRoutes) # {}
    /\ done[1].pass.leaveActions # << >>
    /\ inners[i].pass.out = << >>
    /\ HasCommitted(inners[i].pass)
    /\ state.url = done[1].pass.redirectUrl

\* ------------------------------------------------ liveness without redirects

\* The router whose guards return booleans only and whose hooks all return.
SpecBoolean == RouterInit(BooleanPolicy) /\ [][Next]_vars /\ Fairness

\* The positions triggers take when no pass emits one.
NavigatePositions == 1..MaxTriggers

\* The positions of the triggers that wait in the queue or have their pass
\* in flight.
PendingPositions ==
  {buffer[j].seq : j \in 1..Len(buffer)} \cup {inners[i].seq : i \in 1..Len(inners)}

\* The pass of the trigger at position s has just completed, in a commit
\* that left its target as the state or in an abort that left the state it
\* had read.
Terminated(s) ==
  /\ done # << >>
  /\ done[1].seq = s
  /\ \/ /\ done[1].pass.kind = "commit"
        /\ done[1].after = [url |-> done[1].pass.trigger.url,
                            routes |-> match(done[1].pass.trigger.url.path)]
     \/ /\ done[1].pass.kind = "empty"
        /\ done[1].after = Snapshot(done[1].pass)

\* C24: when every hook returns and no guard returns a Url, every pass ends
\* in a commit or in a silent abort and no pass emits a trigger; no trigger
\* is lost (each dispatched one waits in the queue, has its pass in flight,
\* or is no later than the pass completed last); every trigger queued or in
\* flight has its pass terminated eventually, with its target or the state
\* it read as the state; and the router ends up idle with an empty queue
\* for good once the Navigates stop.
C24_EveryTriggerTerminates ==
  /\ [](fault = << >>)
  /\ [](\A p \in RecordedPasses :
          /\ p.kind \in {"commit", "empty"}
          /\ p.trigger.type = "Navigate")
  /\ [](\A s \in NavigatePositions :
          s < nextSeq =>
            \/ s \in PendingPositions
            \/ done # << >> /\ s <= done[1].seq)
  /\ [](done # << >> => Terminated(done[1].seq))
  /\ \A s \in NavigatePositions : (s \in PendingPositions) ~> Terminated(s)
  /\ <>[]Idle

\* Every Navigate the budget allows has been dispatched and has had its
\* pass; the last one left a committed hierarchy, ran an enter guard and
\* committed its target, and the router is idle with an empty queue.
C24_Witness ==
  /\ policy = BooleanPolicy
  /\ Idle
  /\ nextSeq > MaxTriggers
  /\ Terminated(MaxTriggers)
  /\ done[1].pass.kind = "commit"
  /\ done[1].pass.prevUrl # DefaultUrl
  /\ done[1].pass.prevUrl # done[1].pass.trigger.url
  /\ \E k \in 1..Len(done[1].pass.calls) : done[1].pass.calls[k].hook = "interceptEnter"

====
